---------------------------- MODULE Spec2Model ----------------------------
(***************************************************************************)
(* Model of the ad-creative collection pipeline of meta_library:           *)
(*   src/01_collect_ads.py    page scraping (extract_ad_data)              *)
(*   src/03_upload_images.py  imgbb upload run with the md5 hash log       *)
(*   src/03_upload_r2.py      R2 upload run with its own md5 hash log      *)
(*   src/04_write_sheets.py   keyword sheet rows                           *)
(*   src/07_run_weekly.py     run_full_pipeline, save_ads_to_supabase      *)
(*   src/08_scheduler.py      run_scheduled_collection and the registry    *)
(* Every operation is one action; what the network, the page and the       *)
(* remote services answer is an input of the action.                       *)
(***************************************************************************)
EXTENDS Integers, Sequences, FiniteSets, TLC

(***************************************************************************)
(* Bounds of the model.                                                    *)
(***************************************************************************)
MaxAds == 2
NumUrls == 1
NumBytes == 2
MaxPage == 3
Limits == (0 - 1)..(MaxPage + 1)
MaxKeywords == 2
MaxCollected == 4
SchedAds == 1
TwoSinkAds == 1
MaxScrolls == 5
StallThreshold == 3
CardCounts == {0, 3, 5}
Targets == {4, 10}
KeywordLimits == {1, 50}
DailyLimitValues == {0, 2}
StartCounts == {0, 1, 2, 18, 20}
DefaultDailyLimit == 20
DefaultKeywordLimit == 20
MainLimit == 50

(***************************************************************************)
(* Values.                                                                 *)
(***************************************************************************)
\* Python's None where image bytes are expected (download_image_bytes).
None == 0 - 1
\* b"": a response body of length 0, falsy like None.
EmptyBytes == 0
ImageBytes == 1..NumBytes
DownloadResult == {None, EmptyBytes} \cup ImageBytes
\* "": the default image_urls entry of ad.get("image_urls", [""]).
EmptyUrl == 0
Url == 1..NumUrls
\* A record field that is absent or None.
NoUrl == <<>>
Sinks == {"imgbb", "r2"}
\* The destinations a record can be delivered to: the two image hosts, the
\* local image directory, the relational table and the keyword sheet.
AllSinks == Sinks \cup {"images", "supabase", "sheet"}
Queries == {"q1", "q2"}

Min(a, b) == IF a <= b THEN a ELSE b

\* hashlib.md5(image_bytes).hexdigest(): a digest is decided by the bytes alone.
calculate_image_hash(image_bytes) == <<"md5", image_bytes>>
Digests == {calculate_image_hash(b) : b \in ImageBytes}

\* `not image_bytes`: None and b"" are both falsy.
NotBytes(image_bytes) == image_bytes = None \/ image_bytes = EmptyBytes

(***************************************************************************)
(* A record of a raw file.  has_image_urls tells whether the key           *)
(* "image_urls" is present; ad.get("image_urls", []) is its list or [].    *)
(***************************************************************************)
ImageUrlLists == {<<>>} \cup {<<u>> : u \in Url}
ImgbbUrls == {<<"imgbb", h>> : h \in Digests}
R2Keys == [named : BOOLEAN, hash8 : Digests]
R2Urls == {<<"r2", k>> : k \in R2Keys}

FreshAds ==
    {[has_image_urls |-> FALSE, image_urls |-> <<>>,
      permanent_image_url |-> NoUrl, r2_image_url |-> NoUrl]}
    \cup
    {[has_image_urls |-> TRUE, image_urls |-> l,
      permanent_image_url |-> NoUrl, r2_image_url |-> NoUrl] : l \in ImageUrlLists}

RECURSIVE SeqsUpTo(_, _)
SeqsUpTo(S, n) ==
    IF n = 0 THEN {<<>>}
    ELSE LET shorter == SeqsUpTo(S, n - 1)
         IN  shorter \cup {Append(s, x) : s \in {t \in shorter : Len(t) = n - 1}, x \in S}

\* ad.get("image_urls", [])
image_urls_of(ad) == IF ad.has_image_urls THEN ad.image_urls ELSE <<>>

VARIABLES
    rawFile,     \* the raw JSON file the upload runs work on: its "ads" list
    hashLog,     \* per sink: data/<sink>_image_hashes.json
    r2Objects,   \* keys stored in the R2 bucket
    lastRun,     \* what the last upload run on this file and log did, by record
    admitted,    \* per sink: digests admitted by completed runs so far
    clean,       \* per sink: every run so far had dedup on and a readable log
    sinkInUse,   \* the sinks this installation delivers to
    imagesDir,   \* data/images: the files fetch_creatives_from_raw saved today
    adsTable,    \* the rows of the Supabase table "ads"
    sheet,       \* per keyword tab of the spreadsheet: its data rows
    page,        \* the Ads Library result page: its matched containers
    collectRun,  \* what the last extract_ad_data call was given and returned
    scrollRun,   \* what the last scroll_and_load_ads call observed and returned
    pipelineLog, \* the reports of the last run_full_pipeline calls, oldest first
    registry,    \* data/keywords.json
    todayImages, \* number of data/images/<today>_*.png files
    schedRun,    \* what the last run_scheduled_collection call did
    mainRun,     \* what the last collect_all_keywords.main call did
    collectedBySchedule,  \* creatives the scheduler's pipeline calls collected today
    proc,        \* per scheduler process: where it is in run_scheduled_collection
    lastEdit     \* what the last add or remove command did

uploadVars == <<hashLog, r2Objects, admitted, clean>>
storeVars == <<imagesDir, adsTable, sheet>>
collectVars == <<page, collectRun, scrollRun>>
schedVars == <<registry, todayImages, schedRun, mainRun, collectedBySchedule, proc, lastEdit>>
otherVars == <<collectVars, pipelineLog, schedVars>>
vars == <<rawFile, lastRun, sinkInUse, uploadVars, storeVars, otherVars>>

NoLog == [exists |-> FALSE, readable |-> TRUE, hashes |-> {}]
NoRun == [sink |-> "none", skip_duplicates |-> TRUE, before |-> {}, ads |-> <<>>,
          events |-> <<>>, uploaded |-> 0, skipped |-> 0, failed |-> 0, total |-> 0,
          crashed |-> FALSE]


(***************************************************************************)
(* The hash log of a sink, as an upload run reads and writes it.           *)
(***************************************************************************)
\* The set the run starts from: the log's hashes when dedup is on and the
\* file exists and parses; the bare `except: pass` leaves the empty set.
load_seen_hashes(log, skip_duplicates) ==
    IF skip_duplicates /\ log.exists /\ log.readable THEN log.hashes ELSE {}

\* A mutant of save_hash_log: the log is never written.
save_hash_log_never(log, skip_duplicates, seen_hashes) == log

\* The log after the run: rewritten with the whole set when dedup is on and
\* the set is not empty, untouched otherwise.
save_hash_log(log, skip_duplicates, seen_hashes) ==
    IF skip_duplicates /\ seen_hashes # {}
    THEN [exists |-> TRUE, readable |-> TRUE, hashes |-> seen_hashes]
    ELSE log

NoDigest == <<>>
\* What a run did for one record: the branch taken, the digest computed (if
\* any), the remote calls made for the record and how the upload went.
Event(kind, digest, calls, upload) ==
    [kind |-> kind, digest |-> digest, calls |-> calls, upload |-> upload]

\* A mutant of StartOfRun: the run starts from the records without the
\* locators earlier runs wrote.
StartOfRun_without_locators(ads, seen_hashes, objects) ==
    [ads |-> [i \in DOMAIN ads |-> [ads[i] EXCEPT !.permanent_image_url = NoUrl,
                                                  !.r2_image_url = NoUrl]],
     seen_hashes |-> seen_hashes, objects |-> objects,
     uploaded |-> 0, skipped |-> 0, failed |-> 0, events |-> <<>>]

\* The state a run carries through its loop over the records.
StartOfRun(ads, seen_hashes, objects) ==
    [ads |-> ads, seen_hashes |-> seen_hashes, objects |-> objects,
     uploaded |-> 0, skipped |-> 0, failed |-> 0, events |-> <<>>]

Logged(st, e) == [st EXCEPT !.events = Append(@, e)]

(***************************************************************************)
(* process_raw_file_with_imgbb: the body of the loop for record i, given   *)
(* what download_image_bytes and upload_to_imgbb return for it.            *)
(***************************************************************************)
\* A mutant of imgbb_step: the digest is not added to seen_hashes.
imgbb_step_no_mark(i, st, skip_duplicates, image_bytes, upload_ok) ==
    LET ad == st.ads[i]
        image_hash == calculate_image_hash(image_bytes)
    IN  IF image_urls_of(ad) = <<>>
        THEN Logged(st, Event("no_image", NoDigest, {}, "none"))
        ELSE IF ad.permanent_image_url # NoUrl
        THEN Logged([st EXCEPT !.skipped = @ + 1], Event("has_locator", NoDigest, {}, "none"))
        ELSE IF NotBytes(image_bytes)
        THEN Logged([st EXCEPT !.failed = @ + 1], Event("download_failed", NoDigest, {"download"}, "none"))
        ELSE IF skip_duplicates /\ image_hash \in st.seen_hashes
        THEN Logged([st EXCEPT !.skipped = @ + 1], Event("duplicate", image_hash, {"download"}, "none"))
        ELSE IF upload_ok
        THEN Logged([st EXCEPT !.ads[i].permanent_image_url = <<"imgbb", image_hash>>,
                               !.uploaded = @ + 1],
                    Event("admitted", image_hash, {"download", "upload"}, "ok"))
        ELSE Logged([st EXCEPT !.failed = @ + 1], Event("admitted", image_hash, {"download", "upload"}, "failed"))

imgbb_step(i, st, skip_duplicates, image_bytes, upload_ok) ==
    LET ad == st.ads[i]
        image_hash == calculate_image_hash(image_bytes)
        marked == [st EXCEPT !.seen_hashes = @ \cup {image_hash}]
    IN  IF image_urls_of(ad) = <<>>
        THEN Logged(st, Event("no_image", NoDigest, {}, "none"))
        ELSE IF ad.permanent_image_url # NoUrl
        THEN Logged([st EXCEPT !.skipped = @ + 1], Event("has_locator", NoDigest, {}, "none"))
        ELSE IF NotBytes(image_bytes)
        THEN Logged([st EXCEPT !.failed = @ + 1], Event("download_failed", NoDigest, {"download"}, "none"))
        ELSE IF skip_duplicates /\ image_hash \in st.seen_hashes
        THEN Logged([st EXCEPT !.skipped = @ + 1], Event("duplicate", image_hash, {"download"}, "none"))
        ELSE IF upload_ok
        THEN Logged([marked EXCEPT !.ads[i].permanent_image_url = <<"imgbb", image_hash>>,
                                   !.uploaded = @ + 1],
                    Event("admitted", image_hash, {"download", "upload"}, "ok"))
        ELSE Logged([marked EXCEPT !.failed = @ + 1], Event("admitted", image_hash, {"download", "upload"}, "failed"))

(***************************************************************************)
(* process_raw_file_to_r2: the body of the loop for record i, given what   *)
(* download_image_bytes, check_r2_exists (head_ok: the HEAD request went   *)
(* through) and upload_to_r2 return for it.                                *)
(***************************************************************************)
\* A mutant of r2_step: a record that carries the imgbb locator is skipped as well.
r2_step_any_locator(i, st, skip_duplicates, image_bytes, head_ok, upload_ok) ==
    LET ad == st.ads[i]
        image_hash == calculate_image_hash(image_bytes)
        marked == [st EXCEPT !.seen_hashes = @ \cup {image_hash}]
        dup_key == [named |-> FALSE, hash8 |-> image_hash]
        filename == [named |-> TRUE, hash8 |-> image_hash]
    IN  IF image_urls_of(ad) = <<>>
        THEN Logged(st, Event("no_image", NoDigest, {}, "none"))
        ELSE IF ad.r2_image_url # NoUrl \/ ad.permanent_image_url # NoUrl
        THEN Logged([st EXCEPT !.skipped = @ + 1], Event("has_locator", NoDigest, {}, "none"))
        ELSE IF NotBytes(image_bytes)
        THEN Logged([st EXCEPT !.failed = @ + 1], Event("download_failed", NoDigest, {"download"}, "none"))
        ELSE IF skip_duplicates /\ image_hash \in st.seen_hashes
        THEN Logged([st EXCEPT !.ads[i].r2_image_url = <<"r2", dup_key>>,
                               !.skipped = @ + 1],
                    Event("duplicate", image_hash, {"download"}, "none"))
        ELSE IF head_ok /\ filename \in st.objects
        THEN Logged([marked EXCEPT !.ads[i].r2_image_url = <<"r2", filename>>,
                                   !.skipped = @ + 1],
                    Event("admitted", image_hash, {"download", "head"}, "none"))
        ELSE IF upload_ok
        THEN Logged([marked EXCEPT !.ads[i].r2_image_url = <<"r2", filename>>,
                                   !.objects = @ \cup {filename},
                                   !.uploaded = @ + 1],
                    Event("admitted", image_hash, {"download", "head", "upload"}, "ok"))
        ELSE Logged([marked EXCEPT !.failed = @ + 1], Event("admitted", image_hash, {"download", "head", "upload"}, "failed"))

r2_step(i, st, skip_duplicates, image_bytes, head_ok, upload_ok) ==
    LET ad == st.ads[i]
        image_hash == calculate_image_hash(image_bytes)
        marked == [st EXCEPT !.seen_hashes = @ \cup {image_hash}]
        dup_key == [named |-> FALSE, hash8 |-> image_hash]
        filename == [named |-> TRUE, hash8 |-> image_hash]
    IN  IF image_urls_of(ad) = <<>>
        THEN Logged(st, Event("no_image", NoDigest, {}, "none"))
        ELSE IF ad.r2_image_url # NoUrl
        THEN Logged([st EXCEPT !.skipped = @ + 1], Event("has_locator", NoDigest, {}, "none"))
        ELSE IF NotBytes(image_bytes)
        THEN Logged([st EXCEPT !.failed = @ + 1], Event("download_failed", NoDigest, {"download"}, "none"))
        ELSE IF skip_duplicates /\ image_hash \in st.seen_hashes
        THEN Logged([st EXCEPT !.ads[i].r2_image_url = <<"r2", dup_key>>,
                               !.skipped = @ + 1],
                    Event("duplicate", image_hash, {"download"}, "none"))
        ELSE IF head_ok /\ filename \in st.objects
        THEN Logged([marked EXCEPT !.ads[i].r2_image_url = <<"r2", filename>>,
                                   !.skipped = @ + 1],
                    Event("admitted", image_hash, {"download", "head"}, "none"))
        ELSE IF upload_ok
        THEN Logged([marked EXCEPT !.ads[i].r2_image_url = <<"r2", filename>>,
                                   !.objects = @ \cup {filename},
                                   !.uploaded = @ + 1],
                    Event("admitted", image_hash, {"download", "head", "upload"}, "ok"))
        ELSE Logged([marked EXCEPT !.failed = @ + 1], Event("admitted", image_hash, {"download", "head", "upload"}, "failed"))

\* Every way the loop can go from record i on: one final state per choice of
\* what the network answers for each record.
RECURSIVE imgbb_loop(_, _, _)
imgbb_loop(i, st, skip_duplicates) ==
    IF i > Len(st.ads) THEN {st}
    ELSE UNION {imgbb_loop(i + 1, imgbb_step(i, st, skip_duplicates, b, ok), skip_duplicates) :
                    b \in DownloadResult, ok \in BOOLEAN}

RECURSIVE r2_loop(_, _, _)
r2_loop(i, st, skip_duplicates) ==
    IF i > Len(st.ads) THEN {st}
    ELSE UNION {r2_loop(i + 1, r2_step(i, st, skip_duplicates, b[1], b[2], b[3]), skip_duplicates) :
                    b \in DownloadResult \X BOOLEAN \X BOOLEAN}

AdmittedIn(events) ==
    {events[i].digest : i \in {j \in DOMAIN events : events[j].kind = "admitted"}}

\* The history of a sink stays clean while every run has dedup on and finds
\* its log absent or readable.
StillClean(was, log, skip_duplicates) ==
    was /\ skip_duplicates /\ (log.exists => log.readable)

\* What a completed run leaves behind for the checks.
RunRecord(sink, skip_duplicates, before, ads, st) ==
    [sink |-> sink, skip_duplicates |-> skip_duplicates, before |-> before, ads |-> ads,
     events |-> st.events, uploaded |-> st.uploaded, skipped |-> st.skipped,
     failed |-> st.failed, total |-> Len(st.ads), crashed |-> FALSE]

(***************************************************************************)
(* Actions.                                                                *)
(***************************************************************************)
\* A raw file is put in data/raw: by save_raw_data after a collection, or by
\* the operator (--raw-file).
PutRawFile ==
    /\ \E ads \in SeqsUpTo(FreshAds, MaxAds), query \in Queries :
          rawFile' = [exists |-> TRUE, query |-> query, ads |-> ads]
    /\ lastRun' = NoRun
    /\ UNCHANGED <<sinkInUse, uploadVars, storeVars, otherVars>>

\* The hash log of a sink is left unparsable (a torn or hand-edited file).
DamageHashLog ==
    \E s \in sinkInUse \cap Sinks :
        /\ hashLog[s].exists /\ hashLog[s].readable
        /\ hashLog' = [hashLog EXCEPT ![s].readable = FALSE]
        /\ lastRun' = NoRun
        /\ UNCHANGED <<rawFile, r2Objects, admitted, clean, sinkInUse, storeVars, otherVars>>

\* 03_upload_images.py: process_raw_file_with_imgbb(raw_file, skip_duplicates)
process_raw_file_with_imgbb ==
    /\ "imgbb" \in sinkInUse
    /\ rawFile.exists
    /\ \E skip_duplicates \in BOOLEAN :
         LET log == hashLog["imgbb"]
             seen0 == load_seen_hashes(log, skip_duplicates)
         IN  \E st \in imgbb_loop(1, StartOfRun(rawFile.ads, seen0, {}), skip_duplicates) :
                /\ hashLog' = [hashLog EXCEPT
                                  !["imgbb"] = save_hash_log(log, skip_duplicates, st.seen_hashes)]
                /\ rawFile' = [rawFile EXCEPT !.ads = st.ads]
                /\ lastRun' = RunRecord("imgbb", skip_duplicates, admitted["imgbb"], rawFile.ads, st)
                /\ clean' = [clean EXCEPT !["imgbb"] = StillClean(@, log, skip_duplicates)]
                /\ admitted' = [admitted EXCEPT
                                   !["imgbb"] = IF clean'["imgbb"] THEN @ \cup AdmittedIn(st.events) ELSE {}]
                /\ UNCHANGED <<r2Objects, sinkInUse, storeVars, otherVars>>

\* 03_upload_r2.py: process_raw_file_to_r2(raw_file, skip_duplicates), with
\* R2_PUBLIC_URL set (get_r2_public_url raises before the loop otherwise).
process_raw_file_to_r2 ==
    /\ "r2" \in sinkInUse
    /\ rawFile.exists
    /\ \E skip_duplicates \in BOOLEAN :
         LET log == hashLog["r2"]
             seen0 == load_seen_hashes(log, skip_duplicates)
         IN  \E st \in r2_loop(1, StartOfRun(rawFile.ads, seen0, r2Objects), skip_duplicates) :
                /\ hashLog' = [hashLog EXCEPT
                                  !["r2"] = save_hash_log(log, skip_duplicates, st.seen_hashes)]
                /\ rawFile' = [rawFile EXCEPT !.ads = st.ads]
                /\ r2Objects' = st.objects
                /\ lastRun' = RunRecord("r2", skip_duplicates, admitted["r2"], rawFile.ads, st)
                /\ clean' = [clean EXCEPT !["r2"] = StillClean(@, log, skip_duplicates)]
                /\ admitted' = [admitted EXCEPT
                                   !["r2"] = IF clean'["r2"] THEN @ \cup AdmittedIn(st.events) ELSE {}]
                /\ UNCHANGED <<sinkInUse, storeVars, otherVars>>

(***************************************************************************)
(* A run that is killed before it returns.  Both upload runs keep          *)
(* seen_hashes and the updated records in memory and write the hash log    *)
(* and the raw file once, after the loop.  The process can stop            *)
(*   "loop"        after `done` records, none of the two files written;    *)
(*   "log_torn"    inside the json.dump of the hash log, which open(.."w") *)
(*                 has truncated;                                          *)
(*   "log_written" after the hash log is written, before the raw file is.  *)
(***************************************************************************)
CrashPoints == {"loop", "log_torn", "log_written"}

\* The hash log a killed run leaves behind.
crashed_hash_log(log, skip_duplicates, seen_hashes, crash_point) ==
    IF crash_point = "loop" \/ ~(skip_duplicates /\ seen_hashes # {})
    THEN log
    ELSE IF crash_point = "log_torn"
    THEN [exists |-> TRUE, readable |-> FALSE, hashes |-> {}]
    ELSE save_hash_log(log, skip_duplicates, seen_hashes)

\* The records the loop has gone through when the run is killed.
DonePrefix(ads, crash_point) ==
    IF crash_point = "loop"
    THEN {SubSeq(ads, 1, done) : done \in 0..(Len(ads) - 1)}
    ELSE {ads}

crash_in_process_raw_file_with_imgbb ==
    /\ "imgbb" \in sinkInUse
    /\ rawFile.exists
    /\ \E skip_duplicates \in BOOLEAN, crash_point \in CrashPoints :
         LET log == hashLog["imgbb"]
             seen0 == load_seen_hashes(log, skip_duplicates)
         IN  \E ads \in DonePrefix(rawFile.ads, crash_point) :
             \E st \in imgbb_loop(1, StartOfRun(ads, seen0, {}), skip_duplicates) :
                /\ hashLog' = [hashLog EXCEPT
                                  !["imgbb"] = crashed_hash_log(log, skip_duplicates, st.seen_hashes, crash_point)]
                /\ lastRun' = [RunRecord("imgbb", skip_duplicates, admitted["imgbb"], ads, st)
                                  EXCEPT !.crashed = TRUE]
                /\ clean' = [clean EXCEPT !["imgbb"] = StillClean(@, log, skip_duplicates)]
                /\ admitted' = [admitted EXCEPT
                                   !["imgbb"] = IF clean'["imgbb"] THEN @ \cup AdmittedIn(st.events) ELSE {}]
                /\ UNCHANGED <<rawFile, r2Objects, sinkInUse, storeVars, otherVars>>

crash_in_process_raw_file_to_r2 ==
    /\ "r2" \in sinkInUse
    /\ rawFile.exists
    /\ \E skip_duplicates \in BOOLEAN, crash_point \in CrashPoints :
         LET log == hashLog["r2"]
             seen0 == load_seen_hashes(log, skip_duplicates)
         IN  \E ads \in DonePrefix(rawFile.ads, crash_point) :
             \E st \in r2_loop(1, StartOfRun(ads, seen0, r2Objects), skip_duplicates) :
                /\ hashLog' = [hashLog EXCEPT
                                  !["r2"] = crashed_hash_log(log, skip_duplicates, st.seen_hashes, crash_point)]
                /\ r2Objects' = st.objects
                /\ lastRun' = [RunRecord("r2", skip_duplicates, admitted["r2"], ads, st)
                                  EXCEPT !.crashed = TRUE]
                /\ clean' = [clean EXCEPT !["r2"] = StillClean(@, log, skip_duplicates)]
                /\ admitted' = [admitted EXCEPT
                                   !["r2"] = IF clean'["r2"] THEN @ \cup AdmittedIn(st.events) ELSE {}]
                /\ UNCHANGED <<rawFile, sinkInUse, storeVars, otherVars>>

(***************************************************************************)
(* 02_fetch_creatives.py: fetch_creatives_from_raw.  The body of the loop  *)
(* for record i, given what download_image_bytes returns and whether       *)
(* Image.open/img.save go through.  seen_hashes starts empty in every run; *)
(* the file name carries the digest (the day and the page name are left    *)
(* out: one day, one page name).                                           *)
(***************************************************************************)
\* A mutant of fetch_step: a failed download is counted with the skipped records.
fetch_step_failure_as_skip(i, st, skip_duplicates, image_bytes, save_ok) ==
    LET ad == st.ads[i]
        image_hash == calculate_image_hash(image_bytes)
        marked == [st EXCEPT !.seen_hashes = @ \cup {image_hash}]
    IN  IF image_urls_of(ad) = <<>>
        THEN Logged(st, Event("no_image", NoDigest, {}, "none"))
        ELSE IF NotBytes(image_bytes)
        THEN Logged([st EXCEPT !.skipped = @ + 1], Event("download_failed", NoDigest, {"download"}, "none"))
        ELSE IF skip_duplicates /\ image_hash \in st.seen_hashes
        THEN Logged([st EXCEPT !.skipped = @ + 1], Event("duplicate", image_hash, {"download"}, "none"))
        ELSE IF image_hash \in st.objects
        THEN Logged(marked, Event("admitted", image_hash, {"download"}, "none"))
        ELSE IF save_ok
        THEN Logged([marked EXCEPT !.objects = @ \cup {image_hash}, !.uploaded = @ + 1],
                    Event("admitted", image_hash, {"download", "save"}, "ok"))
        ELSE Logged([marked EXCEPT !.failed = @ + 1],
                    Event("admitted", image_hash, {"download", "save"}, "failed"))

fetch_step(i, st, skip_duplicates, image_bytes, save_ok) ==
    LET ad == st.ads[i]
        image_hash == calculate_image_hash(image_bytes)
        marked == [st EXCEPT !.seen_hashes = @ \cup {image_hash}]
    IN  IF image_urls_of(ad) = <<>>
        THEN Logged(st, Event("no_image", NoDigest, {}, "none"))
        ELSE IF NotBytes(image_bytes)
        THEN Logged([st EXCEPT !.failed = @ + 1], Event("download_failed", NoDigest, {"download"}, "none"))
        ELSE IF skip_duplicates /\ image_hash \in st.seen_hashes
        THEN Logged([st EXCEPT !.skipped = @ + 1], Event("duplicate", image_hash, {"download"}, "none"))
        ELSE IF image_hash \in st.objects
        THEN Logged(marked, Event("admitted", image_hash, {"download"}, "none"))
        ELSE IF save_ok
        THEN Logged([marked EXCEPT !.objects = @ \cup {image_hash}, !.uploaded = @ + 1],
                    Event("admitted", image_hash, {"download", "save"}, "ok"))
        ELSE Logged([marked EXCEPT !.failed = @ + 1],
                    Event("admitted", image_hash, {"download", "save"}, "failed"))

RECURSIVE fetch_loop(_, _, _)
fetch_loop(i, st, skip_duplicates) ==
    IF i > Len(st.ads) THEN {st}
    ELSE UNION {fetch_loop(i + 1, fetch_step(i, st, skip_duplicates, b, ok), skip_duplicates) :
                    b \in DownloadResult, ok \in BOOLEAN}

fetch_creatives_from_raw ==
    /\ "images" \in sinkInUse
    /\ rawFile.exists
    /\ \E skip_duplicates \in BOOLEAN :
         \E st \in fetch_loop(1, StartOfRun(rawFile.ads, {}, imagesDir), skip_duplicates) :
            /\ imagesDir' = st.objects
            /\ todayImages' = todayImages + st.uploaded
            /\ lastRun' = RunRecord("images", skip_duplicates, {}, rawFile.ads, st)
    /\ UNCHANGED <<rawFile, sinkInUse, uploadVars, adsTable, sheet>>
    /\ UNCHANGED <<collectVars, pipelineLog, registry, schedRun, mainRun, collectedBySchedule, proc, lastEdit>>

(***************************************************************************)
(* 07_run_weekly.py: save_ads_to_supabase(ads, query, raw_file).           *)
(***************************************************************************)
\* ad.get("image_urls", [""])[0]: the first URL, "" when the key is missing;
\* an empty list raises IndexError.
first_url_or_default(ad) == IF ad.has_image_urls THEN ad.image_urls[1] ELSE EmptyUrl

\* The dict image URL -> permanent_image_url read from the raw file; a later
\* record with the same URL replaces an earlier one.  Any exception (the file
\* cannot be read, or a record has an empty image_urls list) leaves {}.
ads_with_urls(raw_ok, raw_ads) ==
    IF ~raw_ok \/ \E i \in DOMAIN raw_ads : raw_ads[i].has_image_urls /\ raw_ads[i].image_urls = <<>>
    THEN [u \in {EmptyUrl} \cup Url |-> NoUrl]
    ELSE [u \in {EmptyUrl} \cup Url |->
            LET at == {i \in DOMAIN raw_ads : first_url_or_default(raw_ads[i]) = u}
            IN  IF at = {} THEN NoUrl
                ELSE raw_ads[CHOOSE i \in at : \A j \in at : j <= i].permanent_image_url]

\* A mutant of upsert: a plain insert.
upsert_insert(table, row) == table \cup {row}

\* client.table("ads").upsert(ad_data, on_conflict="keyword,image_url"): the
\* row with the same (keyword, image_url) is replaced, else the row is added.
upsert(table, row) ==
    {r \in table : ~(r.keyword = row.keyword /\ r.image_url = row.image_url)} \cup {row}

\* A mutant of supabase_step: the `if not image_url` guard is missing.
supabase_step_no_guard(i, st, query, by_url, upsert_ok) ==
    LET ad == st.ads[i]
        image_url == IF image_urls_of(ad) # <<>> THEN ad.image_urls[1] ELSE EmptyUrl
        ad_data == [keyword |-> query, image_url |-> image_url,
                    permanent_image_url |-> ad.permanent_image_url]
    IN  IF upsert_ok
        THEN Logged([st EXCEPT !.objects = upsert(@, ad_data), !.uploaded = @ + 1],
                    Event("saved", NoDigest, {"upsert"}, "ok"))
        ELSE Logged([st EXCEPT !.skipped = @ + 1], Event("rejected", NoDigest, {"upsert"}, "failed"))

\* The body of the loop for record i, given whether the upsert goes through.
\* uploaded counts `saved`.
supabase_step(i, st, query, by_url, upsert_ok) ==
    LET ad == st.ads[i]
        image_url == IF image_urls_of(ad) # <<>> THEN ad.image_urls[1] ELSE EmptyUrl
        from_file == by_url[image_url]
        permanent_url == IF from_file # NoUrl THEN from_file ELSE ad.permanent_image_url
        ad_data == [keyword |-> query, image_url |-> image_url,
                    permanent_image_url |-> permanent_url]
    IN  IF image_url = EmptyUrl
        THEN Logged([st EXCEPT !.skipped = @ + 1], Event("no_image", NoDigest, {}, "none"))
        ELSE IF upsert_ok
        THEN Logged([st EXCEPT !.objects = upsert(@, ad_data), !.uploaded = @ + 1],
                    Event("saved", NoDigest, {"upsert"}, "ok"))
        ELSE Logged([st EXCEPT !.skipped = @ + 1], Event("rejected", NoDigest, {"upsert"}, "failed"))

RECURSIVE supabase_loop(_, _, _, _)
supabase_loop(i, st, query, by_url) ==
    IF i > Len(st.ads) THEN {st}
    ELSE UNION {supabase_loop(i + 1, supabase_step(i, st, query, by_url, ok), query, by_url) :
                    ok \in BOOLEAN}

\* The records as the collector returned them: no locator yet.
AsCollected(ads) ==
    [i \in DOMAIN ads |-> [ads[i] EXCEPT !.permanent_image_url = NoUrl, !.r2_image_url = NoUrl]]

\* Every result of save_ads_to_supabase(ads, query, raw_file) on `table`: with
\* no client (no URL or key, or create_client fails) nothing is done.
save_ads_to_supabase_results(ads, query, raw_ads, table) ==
    {[error |-> TRUE, st |-> StartOfRun(ads, {}, table)]}
    \cup
    {[error |-> FALSE, st |-> st] :
        st \in UNION {supabase_loop(1, StartOfRun(ads, {}, table), query, ads_with_urls(ok, raw_ads)) :
                         ok \in BOOLEAN}}

save_ads_to_supabase ==
    /\ "supabase" \in sinkInUse
    /\ rawFile.exists
    /\ \E query \in Queries :
         \E res \in save_ads_to_supabase_results(AsCollected(rawFile.ads), query,
                                                 rawFile.ads, adsTable) :
            /\ adsTable' = res.st.objects
            /\ lastRun' = RunRecord("supabase", TRUE, adsTable, rawFile.ads, res.st)
    /\ UNCHANGED <<rawFile, sinkInUse, uploadVars, imagesDir, sheet, otherVars>>

(***************************************************************************)
(* 04_write_sheets.py: write_ads_by_keyword(spreadsheet, raw_file).        *)
(***************************************************************************)
\* hashlib.md5(image_url.encode()).hexdigest(): the digest of the URL text.
url_hash(image_url) == <<"md5_of_url", image_url>>

\* The body of the loop for record i, given what download_image returns.
\* seen_hashes is existing_hashes, objects the rows to append.
sheet_step(i, st, skip_duplicates, image_bytes) ==
    LET ad == st.ads[i]
        image_url == IF image_urls_of(ad) # <<>> THEN ad.image_urls[1] ELSE EmptyUrl
        image_hash == IF ~NotBytes(image_bytes) THEN calculate_image_hash(image_bytes)
                      ELSE url_hash(image_url)
        calls == IF ~NotBytes(image_bytes) THEN {"download", "ocr"} ELSE {"download"}
        row == [image_url |-> image_url, image_hash |-> image_hash]
    IN  IF image_url = EmptyUrl
        THEN Logged(st, Event("no_image", NoDigest, {}, "none"))
        ELSE IF skip_duplicates /\ image_hash \in st.seen_hashes
        THEN Logged([st EXCEPT !.skipped = @ + 1], Event("duplicate", image_hash, calls, "none"))
        ELSE Logged([st EXCEPT !.seen_hashes = @ \cup {image_hash},
                               !.objects = @ \cup {row},
                               !.uploaded = @ + 1],
                    Event("admitted", image_hash, calls \cup {"row"}, "ok"))

RECURSIVE sheet_loop(_, _, _)
sheet_loop(i, st, skip_duplicates) ==
    IF i > Len(st.ads) THEN {st}
    ELSE UNION {sheet_loop(i + 1, sheet_step(i, st, skip_duplicates, b), skip_duplicates) :
                    b \in DownloadResult}

\* get_existing_image_hashes: column H of the tab; empty when the read fails.
get_existing_image_hashes(rows, read_ok) ==
    IF read_ok THEN {r.image_hash : r \in rows} ELSE {}

\* `rows` is appended in one append_rows call after the loop.
write_ads_by_keyword ==
    /\ "sheet" \in sinkInUse
    /\ rawFile.exists
    /\ \E read_ok \in BOOLEAN :
         LET query == rawFile.query
             existing == get_existing_image_hashes(sheet[query], read_ok)
         IN  \E st \in sheet_loop(1, StartOfRun(rawFile.ads, existing, {}), TRUE) :
                /\ sheet' = [sheet EXCEPT ![query] = @ \cup st.objects]
                /\ lastRun' = RunRecord("sheet", TRUE, {}, rawFile.ads, st)
    /\ UNCHANGED <<rawFile, sinkInUse, uploadVars, imagesDir, adsTable, otherVars>>

(***************************************************************************)
(* 01_collect_ads.py: extract_ad_data and parse_ad_container.  A container *)
(* is what the selectors matched: whether reading it raises (a detached or *)
(* blocked card), whether it has visible text, and the CDN image sources   *)
(* found in it.  Videos and links are left out: a container with only a    *)
(* video yields data like one with only text.                              *)
(***************************************************************************)
Containers ==
    {c \in [broken : BOOLEAN, text : BOOLEAN, images : ImageUrlLists] :
        c.broken => (~c.text /\ c.images = <<>>)}

\* parse_ad_container returns None as <<>>, a dict as <<ad_data>>.
NoAd == <<>>

\* Any exception is caught inside and gives None; so does a container with
\* none of page_name, ad_text, image_urls, video_urls.
parse_ad_container(container, index) ==
    IF container.broken THEN NoAd
    ELSE IF container.text \/ container.images # <<>>
    THEN <<[index |-> index,
            has_page_name |-> container.text,
            has_image_urls |-> container.images # <<>>,
            image_urls |-> container.images,
            permanent_image_url |-> NoUrl,
            r2_image_url |-> NoUrl]>>
    ELSE NoAd

\* A mutant of Slice: the list is not cut.
Slice_all(s, limit) == s

\* Python's s[:limit]: a negative limit counts from the end.
Slice(s, limit) ==
    IF limit >= 0
    THEN SubSeq(s, 1, Min(limit, Len(s)))
    ELSE SubSeq(s, 1, IF Len(s) + limit > 0 THEN Len(s) + limit ELSE 0)

\* A mutant of extract_from: the loop ends at the first container that
\* cannot be parsed.
RECURSIVE extract_from_stop_on_failure(_, _, _)
extract_from_stop_on_failure(containers, i, ads) ==
    IF i >= Len(containers) THEN ads
    ELSE LET ad_data == parse_ad_container(containers[i + 1], i)
         IN  IF containers[i + 1].broken THEN ads
             ELSE extract_from_stop_on_failure(containers, i + 1,
                      IF ad_data # NoAd THEN Append(ads, ad_data[1]) ELSE ads)

\* The loop of extract_ad_data from container i (0-based) on.
RECURSIVE extract_from(_, _, _)
extract_from(containers, i, ads) ==
    IF i >= Len(containers) THEN ads
    ELSE LET ad_data == parse_ad_container(containers[i + 1], i)
         IN  extract_from(containers, i + 1,
                          IF ad_data # NoAd THEN Append(ads, ad_data[1]) ELSE ads)

extract_ad_data(containers, limit) == extract_from(Slice(containers, limit), 0, <<>>)

\* What collect_ads_playwright(query, country, limit, ...) can return on this
\* page: [] when page.goto raises (navigation_ok is false) or anything after
\* it raises, else the extraction.  The browser is closed in `finally`.
collect_ads_playwright_results(containers, limit, navigation_ok) ==
    {[extracted |-> FALSE, ads |-> <<>>]}
    \cup
    (IF navigation_ok
     THEN {[extracted |-> TRUE, ads |-> extract_ad_data(containers, limit)]}
     ELSE {})

NoCollect ==
    [extracted |-> FALSE, navigation_ok |-> TRUE, limit |-> 0, page |-> <<>>, ads |-> <<>>]

\* page.goto: a new result page, nothing matched yet.
LoadPage ==
    /\ page # <<>>
    /\ page' = <<>>
    /\ collectRun' = NoCollect
    /\ UNCHANGED <<scrollRun, rawFile, lastRun, sinkInUse, uploadVars, storeVars, pipelineLog, schedVars>>

\* The page renders one more ad container (initial load or a scroll).
LoadMore ==
    /\ Len(page) < MaxPage
    /\ \E container \in Containers : page' = Append(page, container)
    /\ collectRun' = NoCollect
    /\ UNCHANGED <<scrollRun, rawFile, lastRun, sinkInUse, uploadVars, storeVars, pipelineLog, schedVars>>

\* 01_collect_ads.py: collect_ads_playwright, called from its own main.
collect_ads_playwright ==
    /\ \E limit \in Limits, navigation_ok \in BOOLEAN :
         \E res \in collect_ads_playwright_results(page, limit, navigation_ok) :
            collectRun' = [extracted |-> res.extracted, navigation_ok |-> navigation_ok,
                           limit |-> limit, page |-> page, ads |-> res.ads]
    /\ UNCHANGED <<page, scrollRun, rawFile, lastRun, sinkInUse, uploadVars, storeVars, pipelineLog, schedVars>>

(***************************************************************************)
(* 01_collect_ads.py: scroll_and_load_ads(page, target_count, max_scrolls). *)
(* counts[k] is the number of cards the k-th pass of the loop finds.  sl   *)
(* carries previous_count, scroll_count, no_change_count, current_count    *)
(* and the counts observed so far.                                         *)
(***************************************************************************)
RECURSIVE scroll_loop(_, _, _, _)
scroll_loop(counts, target_count, max_scrolls, sl) ==
    IF ~(sl.scroll_count < max_scrolls) THEN sl
    ELSE LET current_count == counts[sl.scroll_count + 1]
             seen == [sl EXCEPT !.current_count = current_count,
                                !.observed = Append(@, current_count)]
             no_change_count == IF current_count = sl.previous_count
                                THEN sl.no_change_count + 1 ELSE 0
         IN  IF current_count >= target_count THEN seen
             ELSE IF current_count = sl.previous_count /\ no_change_count >= StallThreshold
             THEN [seen EXCEPT !.no_change_count = no_change_count]
             ELSE scroll_loop(counts, target_count, max_scrolls,
                              [seen EXCEPT !.no_change_count = no_change_count,
                                           !.previous_count = current_count,
                                           !.scroll_count = @ + 1])

NoScroll ==
    [ran |-> FALSE, target_count |-> 0, observed |-> <<>>, returned |-> 0, scroll_count |-> 0]

\* One call, on a page whose successive card counts are `counts`.
scroll_and_load_ads ==
    /\ \E target_count \in Targets, counts \in [1..MaxScrolls -> CardCounts] :
          LET sl == scroll_loop(counts, target_count, MaxScrolls,
                                [previous_count |-> 0, scroll_count |-> 0,
                                 no_change_count |-> 0, current_count |-> 0,
                                 observed |-> <<>>])
          IN  scrollRun' = [ran |-> TRUE, target_count |-> target_count,
                            observed |-> sl.observed, returned |-> sl.current_count,
                            scroll_count |-> sl.scroll_count]
    /\ UNCHANGED <<page, collectRun, rawFile, lastRun, sinkInUse, uploadVars, storeVars,
                   pipelineLog, schedVars>>

(***************************************************************************)
(* Calls by keyword.  A call binds when every keyword it passes is a       *)
(* parameter of the callee and every parameter without default is passed;  *)
(* otherwise Python raises TypeError before the callee's body runs.        *)
(***************************************************************************)
\* def run_full_pipeline(query, country, limit, headless=True,
\*                       image_only=False, skip_upload=False)
run_full_pipeline_params ==
    {"query", "country", "limit", "headless", "image_only", "skip_upload"}
run_full_pipeline_required == {"query", "country", "limit"}

\* async def collect_ads_playwright(query, country="KR", limit=50,
\*                                  headless=True, active_only=True)
collect_ads_playwright_params == {"query", "country", "limit", "headless", "active_only"}
collect_ads_playwright_required == {"query"}

\* The keywords passed where run_full_pipeline calls collect_ads_playwright,
\* and where 07_run_weekly.main, collect_all_keywords.main and
\* run_scheduled_collection call run_full_pipeline.
pipeline_collect_kwargs == {"query", "country", "limit", "headless", "image_only"}
cli_call_kwargs == {"query", "country", "limit", "headless", "image_only", "skip_upload"}
main_call_kwargs == {"query", "country", "limit", "headless", "image_only", "skip_upload"}
scheduler_call_kwargs ==
    {"query", "country", "limit", "headless", "image_only",
     "skip_download", "skip_upload", "skip_sheets"}

\* A mutant of Binds: every call binds.
Binds_any(kwargs, params, required) == TRUE

Binds(kwargs, params, required) == kwargs \subseteq params /\ required \subseteq kwargs

(***************************************************************************)
(* 07_run_weekly.py: run_full_pipeline.  ps is what the pipeline works on: *)
(* the raw file, the imgbb hash log and the table.  An outcome says        *)
(* whether the call raised, which steps ran, and what they reported.       *)
(***************************************************************************)
PipelineState(raw, log, table) == [raw |-> raw, log |-> log, table |-> table]

NoUpload == [uploaded |-> 0, skipped |-> 0, failed |-> 0]
NoSave == [saved |-> 0, skipped |-> 0, error |-> FALSE]

Outcome(raised, error, steps, ads, up, db, ps) ==
    [raised |-> raised, error |-> error, steps |-> steps, collected |-> Len(ads),
     uploaded |-> up.uploaded, skipped |-> up.skipped, failed |-> up.failed,
     saved |-> db.saved, db_skipped |-> db.skipped, db_error |-> db.error,
     ps |-> ps]

\* Step 3: save_ads_to_supabase(ads, query, raw_file), then return raw_file.
save_step(query, ads, steps, up, ps) ==
    {Outcome(FALSE, "none", steps \cup {"save"}, ads, up,
             [saved |-> res.st.uploaded, skipped |-> res.st.skipped, error |-> res.error],
             [ps EXCEPT !.table = res.st.objects]) :
        res \in save_ads_to_supabase_results(ads, query, ps.raw.ads, ps.table)}

\* Step 2: process_raw_file_with_imgbb(raw_file) unless skip_upload is set or
\* IMGBB_API_KEY is missing; the call is not in a try block, so an exception
\* in it (the raw file cannot be read) leaves run_full_pipeline.
upload_step(query, ads, skip_upload, imgbb_api_key, ps) ==
    IF skip_upload \/ ~imgbb_api_key
    THEN save_step(query, ads, {"collect", "save_raw"}, NoUpload, ps)
    ELSE {Outcome(TRUE, "OSError", {"collect", "save_raw", "upload"}, ads, NoUpload, NoSave, ps)}
         \cup
         UNION {save_step(query, ads, {"collect", "save_raw", "upload"},
                          [uploaded |-> st.uploaded, skipped |-> st.skipped, failed |-> st.failed],
                          [ps EXCEPT !.raw.ads = st.ads,
                                     !.log = save_hash_log(@, TRUE, st.seen_hashes)]) :
                   st \in imgbb_loop(1, StartOfRun(ads, load_seen_hashes(ps.log, TRUE), {}), TRUE)}

\* Every outcome of run_full_pipeline called with the keywords `kwargs` on
\* the result page `containers`, which can be navigated to or not.
run_full_pipeline_results(kwargs, query, limit, skip_upload, imgbb_api_key, navigation_ok, containers, ps) ==
    IF ~Binds(kwargs, run_full_pipeline_params, run_full_pipeline_required)
    THEN {Outcome(TRUE, "TypeError", {}, <<>>, NoUpload, NoSave, ps)}
    ELSE IF ~Binds(pipeline_collect_kwargs, collect_ads_playwright_params,
                   collect_ads_playwright_required)
    THEN {Outcome(TRUE, "TypeError", {}, <<>>, NoUpload, NoSave, ps)}
    ELSE UNION {IF res.ads = <<>>
                THEN {Outcome(FALSE, "none", {"collect"}, <<>>, NoUpload, NoSave, ps)}
                ELSE upload_step(query, res.ads, skip_upload, imgbb_api_key,
                                 [ps EXCEPT !.raw = [exists |-> TRUE, query |-> query,
                                                     ads |-> res.ads]]) :
                   res \in collect_ads_playwright_results(containers, limit, navigation_ok)}

\* What a call leaves in pipelineLog: its arguments, what the source page
\* holds below the limit, and the outcome without the stores.
Report(query, limit, skip_upload, imgbb_api_key, navigation_ok, containers, out) ==
    LET source_ads == extract_ad_data(containers, limit)
    IN  [query |-> query, limit |-> limit, skip_upload |-> skip_upload,
         imgbb_api_key |-> imgbb_api_key, navigation_ok |-> navigation_ok,
         source_records |-> Len(source_ads),
         source_image_bearing |->
             Cardinality({i \in DOMAIN source_ads : source_ads[i].has_image_urls}),
         raised |-> out.raised, error |-> out.error, steps |-> out.steps,
         collected |-> out.collected, uploaded |-> out.uploaded, skipped |-> out.skipped,
         saved |-> out.saved]

LastTwo(log, report) == IF Len(log) = 2 THEN <<log[2], report>> ELSE Append(log, report)

\* 07_run_weekly.py: main, the command line of the pipeline.
run_weekly_main ==
    \E query \in Queries, limit \in 1..MaxAds, skip_upload \in BOOLEAN,
       imgbb_api_key \in BOOLEAN, navigation_ok \in BOOLEAN :
       \E out \in run_full_pipeline_results(cli_call_kwargs, query, limit, skip_upload,
                                            imgbb_api_key, navigation_ok, page,
                                            PipelineState(rawFile, hashLog["imgbb"], adsTable)) :
          /\ rawFile' = out.ps.raw
          /\ hashLog' = [hashLog EXCEPT !["imgbb"] = out.ps.log]
          /\ adsTable' = out.ps.table
          /\ pipelineLog' = LastTwo(pipelineLog,
                                    Report(query, limit, skip_upload, imgbb_api_key,
                                           navigation_ok, page, out))
          /\ lastRun' = NoRun
          /\ UNCHANGED <<r2Objects, admitted, clean, sinkInUse, imagesDir, sheet,
                         collectVars, schedVars>>

(***************************************************************************)
(* 08_scheduler.py: run_scheduled_collection, and collect_all_keywords.py: *)
(* main.  The registry is data/keywords.json, written by hand and by       *)
(* add_keyword: its "keywords" list and its optional "daily_limit".        *)
(***************************************************************************)
\* An entry of the "keywords" list.  The "enabled" key can be missing from a
\* hand-written entry (has_enabled is FALSE, and enabled then holds nothing).
KeywordEntries ==
    {kw \in [query : Queries, limit : KeywordLimits \cup {None},
             has_enabled : BOOLEAN, enabled : BOOLEAN] :
        ~kw.has_enabled => ~kw.enabled}

Registries ==
    {r \in [keywords : SeqsUpTo(KeywordEntries, MaxKeywords),
            daily_limit : DailyLimitValues \cup {None}] :
        \A i, j \in DOMAIN r.keywords :
            r.keywords[i].query = r.keywords[j].query => i = j}

\* data.get("daily_limit", 20)
daily_limit_of(data) ==
    IF data.daily_limit = None THEN DefaultDailyLimit ELSE data.daily_limit

\* kw.get("limit", 20)
kw_limit(kw) == IF kw.limit = None THEN DefaultKeywordLimit ELSE kw.limit

\* A mutant of enabled_keywords: every keyword is taken.
all_keywords(keywords) == keywords

\* [kw for kw in keywords if kw.get("enabled", True)]
enabled_keywords(keywords) ==
    SelectSeq(keywords, LAMBDA kw : IF kw.has_enabled THEN kw.enabled ELSE TRUE)

\* count_today_images(): the number of <today>_*.png files in data/images.
count_today_images == todayImages

\* A mutant of limit_reached: the daily limit is never seen as reached.
limit_never_reached(total_collected, daily_limit) == FALSE

\* `already_collected >= daily_limit` before the loop and
\* `total_collected >= daily_limit` at the head of each iteration.
limit_reached(total_collected, daily_limit) == total_collected >= daily_limit

\* A mutant of requested_limit: the keyword's own limit is passed.
requested_limit_of_keyword(kw, daily_limit, total_collected) == kw_limit(kw)

\* remaining = daily_limit - total_collected; limit = min(kw limit, remaining)
requested_limit(kw, daily_limit, total_collected) ==
    Min(kw_limit(kw), daily_limit - total_collected)

\* A mutant of initial_total: the running total starts at zero.
initial_total_zero(already_collected) == 0

\* total_collected = already_collected
initial_total(already_collected) == already_collected

\* The exception classes the pipeline can raise; all derive from Exception.
ExceptionSubclasses == {"TypeError", "OSError"}

\* A mutant of caught_by_except_Exception: the handler catches nothing.
caught_by_nothing(error) == FALSE

\* `except Exception as e:` around the call of run_full_pipeline.
caught_by_except_Exception(error) == error \in ExceptionSubclasses

Attempt(kw, limit, total_before, out, total_after) ==
    [query |-> kw.query, kw_limit |-> kw_limit(kw), limit |-> limit,
     total_before |-> total_before,
     outcome |-> IF out.raised THEN "raised" ELSE "completed",
     error |-> out.error, collected |-> out.collected,
     observed |-> count_today_images, total_after |-> total_after]

\* The loop over enabled_keywords from position idx on.  ss carries
\* total_collected, the attempts made, the stores, and how the loop ended.
RECURSIVE scheduled_loop(_, _, _, _, _)
scheduled_loop(idx, enabled, daily_limit, imgbb_api_key, ss) ==
    IF idx > Len(enabled) THEN {[ss EXCEPT !.exit = "done"]}
    ELSE IF limit_reached(ss.total_collected, daily_limit) THEN {[ss EXCEPT !.exit = "break"]}
    ELSE LET kw == enabled[idx]
             limit == requested_limit(kw, daily_limit, ss.total_collected)
             after(out) ==
                 IF out.raised
                 THEN LET failed == [ss EXCEPT
                                        !.attempts = Append(@, Attempt(kw, limit, ss.total_collected,
                                                                       out, ss.total_collected)),
                                        !.ps = out.ps]
                      IN  IF caught_by_except_Exception(out.error)
                          THEN scheduled_loop(idx + 1, enabled, daily_limit, imgbb_api_key, failed)
                          ELSE {[failed EXCEPT !.exit = "raised"]}
                 ELSE scheduled_loop(idx + 1, enabled, daily_limit, imgbb_api_key,
                          [ss EXCEPT
                              !.total_collected = count_today_images,
                              !.attempts = Append(@, Attempt(kw, limit, ss.total_collected,
                                                             out, count_today_images)),
                              !.collected = @ + out.collected,
                              !.ps = out.ps])
         IN  UNION {after(out) :
                       out \in UNION {run_full_pipeline_results(
                                          scheduler_call_kwargs, kw.query, limit, FALSE,
                                          imgbb_api_key, navigation_ok, page, ss.ps) :
                                      navigation_ok \in BOOLEAN}}

\* A mutant of keywords_file_after_run: the run rewrites the file with the
\* keywords it has gone through switched off.
keywords_file_all_disabled(data) ==
    [data EXCEPT !.keywords = [i \in DOMAIN @ |-> [@[i] EXCEPT !.has_enabled = TRUE,
                                                              !.enabled = FALSE]]]

\* data/keywords.json after run_scheduled_collection: the function calls
\* load_keywords and never save_keywords, so the file is as it was.
keywords_file_after_run(data) == data

NoSchedRun ==
    [exit |-> "none", daily_limit |-> 0, already_collected |-> 0, enabled |-> <<>>,
     attempts |-> <<>>, total_collected |-> 0]

NoMainRun == [ran |-> FALSE, keywords |-> <<>>, results |-> <<>>, exit |-> "none"]

run_scheduled_collection ==
    LET data == registry
        keywords == data.keywords
        daily_limit == daily_limit_of(data)
        enabled == enabled_keywords(keywords)
        already_collected == count_today_images
        ps == PipelineState(rawFile, hashLog["imgbb"], adsTable)
        start == [total_collected |-> initial_total(already_collected), attempts |-> <<>>,
                  collected |-> 0, ps |-> ps, exit |-> "none"]
        ended(exit, ss) ==
            /\ schedRun' = [exit |-> exit, daily_limit |-> daily_limit,
                            already_collected |-> already_collected, enabled |-> enabled,
                            attempts |-> ss.attempts, total_collected |-> ss.total_collected]
            /\ collectedBySchedule' = collectedBySchedule + ss.collected
            /\ rawFile' = ss.ps.raw
            /\ hashLog' = [hashLog EXCEPT !["imgbb"] = ss.ps.log]
            /\ adsTable' = ss.ps.table
    IN  /\ collectedBySchedule < MaxCollected
        /\ IF keywords = <<>>
           THEN ended("no_keywords", [start EXCEPT !.total_collected = 0])
           ELSE IF limit_reached(already_collected, daily_limit)
           THEN ended("limit_at_start", [start EXCEPT !.total_collected = already_collected])
           ELSE \E imgbb_api_key \in BOOLEAN :
                   \E ss \in scheduled_loop(1, enabled, daily_limit, imgbb_api_key, start) :
                      ended(ss.exit, ss)
        /\ mainRun' = NoMainRun
        /\ lastRun' = NoRun
        /\ registry' = keywords_file_after_run(registry)
        /\ UNCHANGED <<r2Objects, admitted, clean, sinkInUse, imagesDir, sheet,
                       collectVars, pipelineLog, todayImages, proc, lastEdit>>

\* The loop of collect_all_keywords.main over `keywords` from position i on.
RECURSIVE main_loop(_, _, _, _)
main_loop(i, keywords, imgbb_api_key, ms) ==
    IF i > Len(keywords) THEN {[ms EXCEPT !.exit = "done"]}
    ELSE LET keyword == keywords[i]
             after(out) ==
                 LET result == [keyword |-> keyword,
                                success |-> ~out.raised /\ "save" \in out.steps,
                                error |-> out.error]
                     next == [ms EXCEPT !.results = Append(@, result), !.ps = out.ps]
                 IN  IF out.raised /\ ~caught_by_except_Exception(out.error)
                     THEN {[ms EXCEPT !.ps = out.ps, !.exit = "raised"]}
                     ELSE main_loop(i + 1, keywords, imgbb_api_key, next)
         IN  UNION {after(out) :
                       out \in UNION {run_full_pipeline_results(
                                          main_call_kwargs, keyword, MainLimit, FALSE,
                                          imgbb_api_key, navigation_ok, page, ms.ps) :
                                      navigation_ok \in BOOLEAN}}

\* keywords is [MANUAL_QUERY] or what get_keywords_from_supabase returns.
collect_all_keywords_main ==
    \E keywords \in SeqsUpTo(Queries, MaxKeywords), imgbb_api_key \in BOOLEAN :
       LET ps == PipelineState(rawFile, hashLog["imgbb"], adsTable)
           start == [results |-> <<>>, ps |-> ps, exit |-> "none"]
       IN  \E ms \in (IF keywords = <<>> THEN {[start EXCEPT !.exit = "no_keywords"]}
                      ELSE main_loop(1, keywords, imgbb_api_key, start)) :
              /\ mainRun' = [ran |-> TRUE, keywords |-> keywords, results |-> ms.results,
                             exit |-> ms.exit]
              /\ rawFile' = ms.ps.raw
              /\ hashLog' = [hashLog EXCEPT !["imgbb"] = ms.ps.log]
              /\ adsTable' = ms.ps.table
              /\ schedRun' = NoSchedRun
              /\ lastRun' = NoRun
              /\ UNCHANGED <<r2Objects, admitted, clean, sinkInUse, imagesDir, sheet,
                             collectVars, pipelineLog, registry, todayImages,
                             collectedBySchedule, proc, lastEdit>>

(***************************************************************************)
(* 08_scheduler.py: add_keyword and remove_keyword, the CLI commands `add` *)
(* and `remove`.  The country of an entry is left out.                     *)
(***************************************************************************)
\* A mutant of add_keyword_result: the duplicate check is missing.
add_keyword_unchecked(data, query, limit) ==
    [returned |-> TRUE,
     data |-> [data EXCEPT !.keywords =
                  Append(@, [query |-> query, limit |-> limit,
                             has_enabled |-> TRUE, enabled |-> TRUE])]]

\* What add_keyword returns and the file it leaves: False and the file as it
\* was when the query is registered, else True and the entry appended.
add_keyword_result(data, query, limit) ==
    IF \E i \in DOMAIN data.keywords : data.keywords[i].query = query
    THEN [returned |-> FALSE, data |-> data]
    ELSE [returned |-> TRUE,
          data |-> [data EXCEPT !.keywords =
                       Append(@, [query |-> query, limit |-> limit,
                                  has_enabled |-> TRUE, enabled |-> TRUE])]]

\* [kw for kw in data["keywords"] if kw["query"] != query]
remove_keyword_result(data, query) ==
    [data EXCEPT !.keywords = SelectSeq(@, LAMBDA kw : kw.query # query)]

\* What the last add or remove command was given and returned.
NoEdit == [op |-> "none", query |-> "none", returned |-> FALSE]

add_keyword ==
    /\ Len(registry.keywords) <= MaxKeywords
    /\ \E query \in Queries, limit \in KeywordLimits :
          LET res == add_keyword_result(registry, query, limit)
          IN  /\ registry' = res.data
              /\ lastEdit' = [op |-> "add", query |-> query, returned |-> res.returned]
    /\ schedRun' = NoSchedRun
    /\ UNCHANGED <<rawFile, lastRun, sinkInUse, uploadVars, storeVars, collectVars, pipelineLog,
                   todayImages, mainRun, collectedBySchedule, proc>>

remove_keyword ==
    /\ \E query \in Queries :
          /\ registry' = remove_keyword_result(registry, query)
          /\ lastEdit' = [op |-> "remove", query |-> query, returned |-> FALSE]
    /\ schedRun' = NoSchedRun
    /\ UNCHANGED <<rawFile, lastRun, sinkInUse, uploadVars, storeVars, collectVars, pipelineLog,
                   todayImages, mainRun, collectedBySchedule, proc>>

(***************************************************************************)
(* 08_scheduler.py as processes.  `start` is a long-running process whose  *)
(* loop calls schedule.run_pending(), which runs run_scheduled_collection  *)
(* when the daily time has come; `run-now` is another process that calls   *)
(* run_scheduled_collection at once.  Each process goes through the        *)
(* function on its own: it loads the registry, then for each enabled       *)
(* keyword enters run_full_pipeline and leaves it.  Neither takes a lock   *)
(* or looks at what the other is doing.                                    *)
(***************************************************************************)
Triggers == {"timer", "run_now"}

Idle ==
    [pc |-> "idle", enabled |-> <<>>, daily_limit |-> 0, idx |-> 0, total_collected |-> 0,
     query |-> "none", limit |-> 0]

\* Lines 92-112: load the registry, return when there is nothing to do.
begin_run_scheduled_collection(p) ==
    LET data == registry
        keywords == data.keywords
        daily_limit == daily_limit_of(data)
        already_collected == count_today_images
    IN  /\ proc[p].pc = "idle"
        /\ collectedBySchedule < MaxCollected
        /\ proc' = [proc EXCEPT ![p] =
                       IF keywords = <<>> \/ limit_reached(already_collected, daily_limit)
                       THEN Idle
                       ELSE [Idle EXCEPT !.pc = "loop",
                                         !.enabled = enabled_keywords(keywords),
                                         !.daily_limit = daily_limit,
                                         !.idx = 1,
                                         !.total_collected = initial_total(already_collected)]]
        /\ UNCHANGED <<rawFile, lastRun, sinkInUse, uploadVars, storeVars, collectVars, pipelineLog,
                       registry, todayImages, schedRun, mainRun, collectedBySchedule, lastEdit>>

\* schedule.run_pending() in the loop of start_scheduler finds the job due.
start_scheduler == begin_run_scheduled_collection("timer")

\* The run-now command.
run_now == begin_run_scheduled_collection("run_now")

\* Lines 114-129: the head of the loop, up to the call of run_full_pipeline.
enter_run_full_pipeline(p) ==
    LET me == proc[p]
    IN  /\ me.pc = "loop"
        /\ proc' = [proc EXCEPT ![p] =
                       IF me.idx > Len(me.enabled) \/ limit_reached(me.total_collected, me.daily_limit)
                       THEN Idle
                       ELSE [me EXCEPT !.pc = "pipeline",
                                       !.query = me.enabled[me.idx].query,
                                       !.limit = requested_limit(me.enabled[me.idx], me.daily_limit,
                                                                 me.total_collected)]]
        /\ UNCHANGED <<rawFile, lastRun, sinkInUse, uploadVars, storeVars, collectVars, pipelineLog,
                       registry, todayImages, schedRun, mainRun, collectedBySchedule, lastEdit>>

\* Lines 129-144: the call returns or raises; the loop goes on to the next
\* keyword, or the exception leaves the function.
leave_run_full_pipeline(p) ==
    LET me == proc[p]
        ps == PipelineState(rawFile, hashLog["imgbb"], adsTable)
    IN  /\ me.pc = "pipeline"
        /\ \E imgbb_api_key \in BOOLEAN, navigation_ok \in BOOLEAN :
             \E out \in run_full_pipeline_results(scheduler_call_kwargs, me.query, me.limit, FALSE,
                                                  imgbb_api_key, navigation_ok, page, ps) :
                /\ proc' = [proc EXCEPT ![p] =
                               IF out.raised /\ ~caught_by_except_Exception(out.error)
                               THEN Idle
                               ELSE [me EXCEPT !.pc = "loop",
                                               !.idx = @ + 1,
                                               !.query = "none",
                                               !.limit = 0,
                                               !.total_collected =
                                                   IF out.raised THEN @ ELSE count_today_images]]
                /\ collectedBySchedule' = collectedBySchedule + out.collected
                /\ rawFile' = out.ps.raw
                /\ hashLog' = [hashLog EXCEPT !["imgbb"] = out.ps.log]
                /\ adsTable' = out.ps.table
        /\ lastRun' = NoRun
        /\ UNCHANGED <<r2Objects, admitted, clean, sinkInUse, imagesDir, sheet,
                       collectVars, pipelineLog, registry, todayImages, schedRun, mainRun,
                       lastEdit>>

\* Nothing collected, delivered or scheduled yet.
SinksStart ==
    /\ rawFile = [exists |-> FALSE, query |-> "q1", ads |-> <<>>]
    /\ hashLog = [s \in Sinks |-> NoLog]
    /\ r2Objects = {}
    /\ lastRun = NoRun
    /\ admitted = [s \in Sinks |-> {}]
    /\ clean = [s \in Sinks |-> TRUE]
    /\ imagesDir = {}
    /\ adsTable = {}
    /\ sheet = [q \in Queries |-> {}]

RunsStart ==
    /\ collectRun = NoCollect
    /\ scrollRun = NoScroll
    /\ pipelineLog = <<>>
    /\ schedRun = NoSchedRun
    /\ mainRun = NoMainRun
    /\ collectedBySchedule = 0
    /\ proc = [p \in Triggers |-> Idle]
    /\ lastEdit = NoEdit

NoRegistry == [keywords |-> <<>>, daily_limit |-> None]

\* The installation delivers to one of the sinks.
Init ==
    /\ SinksStart
    /\ RunsStart
    /\ sinkInUse \in {{s} : s \in AllSinks}
    /\ page = <<>>
    /\ registry = NoRegistry
    /\ todayImages = 0

\* The installation delivers to one of the two upload sinks; a collection has
\* left a raw file of MaxAds records in data/raw and nothing is delivered yet.
InitCrash ==
    /\ \E ads \in SeqsUpTo(FreshAds, MaxAds) :
          /\ Len(ads) = MaxAds
          /\ rawFile = [exists |-> TRUE, query |-> "q1", ads |-> ads]
    /\ hashLog = [s \in Sinks |-> NoLog]
    /\ r2Objects = {}
    /\ lastRun = NoRun
    /\ admitted = [s \in Sinks |-> {}]
    /\ clean = [s \in Sinks |-> TRUE]
    /\ imagesDir = {}
    /\ adsTable = {}
    /\ sheet = [q \in Queries |-> {}]
    /\ RunsStart
    /\ sinkInUse \in {{s} : s \in Sinks}
    /\ page = <<>>
    /\ registry = NoRegistry
    /\ todayImages = 0

\* The installation delivers to imgbb and to R2; a collection has left a raw
\* file of TwoSinkAds records in data/raw and nothing is delivered yet.
InitTwoSinks ==
    /\ \E ads \in SeqsUpTo(FreshAds, TwoSinkAds) :
          /\ Len(ads) = TwoSinkAds
          /\ rawFile = [exists |-> TRUE, query |-> "q1", ads |-> ads]
    /\ hashLog = [s \in Sinks |-> NoLog]
    /\ r2Objects = {}
    /\ lastRun = NoRun
    /\ admitted = [s \in Sinks |-> {}]
    /\ clean = [s \in Sinks |-> TRUE]
    /\ imagesDir = {}
    /\ adsTable = {}
    /\ sheet = [q \in Queries |-> {}]
    /\ RunsStart
    /\ sinkInUse = {"imgbb", "r2"}
    /\ page = <<>>
    /\ registry = NoRegistry
    /\ todayImages = 0

\* The installation delivers to imgbb and to Supabase; a collection has left
\* a raw file of TwoSinkAds records in data/raw and nothing is delivered yet.
InitDeliver ==
    /\ \E ads \in SeqsUpTo(FreshAds, TwoSinkAds) :
          /\ Len(ads) = TwoSinkAds
          /\ rawFile = [exists |-> TRUE, query |-> "q1", ads |-> ads]
    /\ hashLog = [s \in Sinks |-> NoLog]
    /\ r2Objects = {}
    /\ lastRun = NoRun
    /\ admitted = [s \in Sinks |-> {}]
    /\ clean = [s \in Sinks |-> TRUE]
    /\ imagesDir = {}
    /\ adsTable = {}
    /\ sheet = [q \in Queries |-> {}]
    /\ RunsStart
    /\ sinkInUse = {"imgbb", "supabase"}
    /\ page = <<>>
    /\ registry = NoRegistry
    /\ todayImages = 0

\* The collector alone, on any result page.
InitCollect ==
    /\ SinksStart
    /\ RunsStart
    /\ sinkInUse = {"imgbb"}
    /\ page = <<>>
    /\ registry = NoRegistry
    /\ todayImages = 0

\* The pipeline on a result page of MaxAds containers.
InitPipeline ==
    /\ SinksStart
    /\ RunsStart
    /\ sinkInUse = {"imgbb"}
    /\ page \in {containers \in SeqsUpTo(Containers, MaxAds) : Len(containers) = MaxAds}
    /\ registry = NoRegistry
    /\ todayImages = 0

\* The scheduler on a day that starts with some images already collected,
\* with any registry, on a result page of SchedAds image ads.
InitSched ==
    /\ SinksStart
    /\ RunsStart
    /\ sinkInUse = {"imgbb"}
    /\ page \in {containers \in SeqsUpTo(Containers, SchedAds) :
                    /\ Len(containers) = SchedAds
                    /\ \A i \in DOMAIN containers :
                          containers[i].text /\ containers[i].images # <<>>}
    /\ registry \in Registries
    /\ todayImages \in StartCounts

NextSinks ==
    \/ PutRawFile
    \/ DamageHashLog
    \/ process_raw_file_with_imgbb
    \/ process_raw_file_to_r2
    \/ fetch_creatives_from_raw
    \/ save_ads_to_supabase
    \/ write_ads_by_keyword

SpecSinks == Init /\ [][NextSinks]_vars

\* The two upload runs over one raw file, completed or killed.
NextCrash ==
    \/ process_raw_file_with_imgbb
    \/ process_raw_file_to_r2
    \/ crash_in_process_raw_file_with_imgbb
    \/ crash_in_process_raw_file_to_r2

SpecCrash == InitCrash /\ [][NextCrash]_vars

\* Both upload scripts run over the same raw file, in any order.
NextTwoSinks ==
    \/ process_raw_file_with_imgbb
    \/ process_raw_file_to_r2

SpecTwoSinks == InitTwoSinks /\ [][NextTwoSinks]_vars

\* The imgbb upload and the Supabase save over one raw file, in any order.
NextDeliver ==
    \/ process_raw_file_with_imgbb
    \/ save_ads_to_supabase

SpecDeliver == InitDeliver /\ [][NextDeliver]_vars

NextCollect ==
    \/ LoadPage
    \/ LoadMore
    \/ collect_ads_playwright

SpecCollect == InitCollect /\ [][NextCollect]_vars

NextScroll ==
    \/ scroll_and_load_ads

SpecScroll == InitCollect /\ [][NextScroll]_vars

NextPipeline ==
    \/ run_weekly_main

SpecPipeline == InitPipeline /\ [][NextPipeline]_vars

NextSched ==
    \/ run_scheduled_collection
    \/ collect_all_keywords_main

SpecSched == InitSched /\ [][NextSched]_vars

\* The scheduler process and a run-now process at the same time.
NextTriggers ==
    \/ start_scheduler
    \/ run_now
    \/ \E p \in Triggers : enter_run_full_pipeline(p)
    \/ \E p \in Triggers : leave_run_full_pipeline(p)

SpecTriggers == InitSched /\ [][NextTriggers]_vars

\* The registry commands and the scheduled collection, in any order.
NextRegistry ==
    \/ add_keyword
    \/ remove_keyword
    \/ run_scheduled_collection

SpecRegistry == InitSched /\ [][NextRegistry]_vars

(***************************************************************************)
(* Properties of the upload runs.                                          *)
(***************************************************************************)
\* Digests admitted by the records before record i of the last run.
AdmittedBefore(i) ==
    {lastRun.events[j].digest :
        j \in {k \in DOMAIN lastRun.events : k < i /\ lastRun.events[k].kind = "admitted"}}

\* The records the last run counted as skipped: duplicates, records that already
\* carry the sink's locator, and (R2) files found by the existence check.
SkippedEvents ==
    {i \in DOMAIN lastRun.events :
        \/ lastRun.events[i].kind \in {"duplicate", "has_locator"}
        \/ lastRun.events[i].kind = "admitted" /\ lastRun.events[i].upload = "none"}

\* C1: with dedup on and a readable hash log in every run of a sink, a record
\* whose downloaded bytes have a digest admitted earlier in the same run or in
\* an earlier completed run of that sink is not admitted again: it takes the
\* duplicate branch, no upload is attempted for it, and the run's skipped
\* counter counts it.
C1_NoReadmission ==
    (lastRun.sink \in Sinks /\ clean[lastRun.sink]) =>
        /\ \A i \in DOMAIN lastRun.events :
              LET e == lastRun.events[i]
              IN  (e.digest # NoDigest /\ e.digest \in lastRun.before \cup AdmittedBefore(i))
                     => (e.kind = "duplicate" /\ e.upload = "none" /\ "upload" \notin e.calls)
        /\ lastRun.skipped = Cardinality(SkippedEvents)

\* C1 witness: a later run in which one record repeats a digest of an earlier
\* run and the next record repeats it again.
C1_Witness ==
    /\ lastRun.sink \in Sinks /\ clean[lastRun.sink]
    /\ Len(lastRun.events) = 2
    /\ lastRun.events[1].kind = "duplicate"
    /\ lastRun.events[1].digest \in lastRun.before
    /\ lastRun.events[2].kind = "duplicate"
    /\ lastRun.skipped = 2

\* C2: a record whose image-URL list is missing or empty is never handed to a
\* sink: the run makes no download, upload, upsert or sheet-row call for it,
\* leaves the record as it was, and no table row or sheet row exists without an
\* image URL.
C2_NoMediaNoSink ==
    /\ \A i \in DOMAIN lastRun.events :
          image_urls_of(lastRun.ads[i]) = <<>> =>
              /\ lastRun.events[i].calls = {}
              /\ lastRun.events[i].kind = "no_image"
              /\ rawFile.ads[i] = lastRun.ads[i]
    /\ \A r \in adsTable : r.image_url # EmptyUrl
    /\ \A q \in Queries : \A r \in sheet[q] : r.image_url # EmptyUrl

\* C2 witness: a save to Supabase over a record without the image_urls key
\* followed by a record with an image, which is upserted.
C2_Witness ==
    /\ lastRun.sink = "supabase"
    /\ Len(lastRun.ads) = 2
    /\ Len(lastRun.events) = 2
    /\ ~lastRun.ads[1].has_image_urls
    /\ lastRun.events[1].kind = "no_image"
    /\ lastRun.events[2].kind = "saved"
    /\ adsTable # {}

(***************************************************************************)
(* Properties of run_full_pipeline (SpecPipeline).                         *)
(***************************************************************************)
\* C3: when run_full_pipeline is run twice with the same query and limit on
\* the same result page and stores, the second run reports every image-bearing
\* record of the page as a skipped duplicate, uploads nothing and saves nothing.
C3_SecondRunAllSkipped ==
    (/\ Len(pipelineLog) = 2
     /\ pipelineLog[1].query = pipelineLog[2].query
     /\ pipelineLog[1].limit = pipelineLog[2].limit
     /\ ~pipelineLog[2].skip_upload /\ pipelineLog[2].imgbb_api_key
     /\ ~pipelineLog[1].skip_upload /\ pipelineLog[1].imgbb_api_key)
    => /\ ~pipelineLog[2].raised
       /\ pipelineLog[2].uploaded = 0
       /\ pipelineLog[2].saved = 0
       /\ pipelineLog[2].skipped = pipelineLog[2].source_image_bearing

\* C9: whenever the result page holds records below the limit, a run of
\* run_full_pipeline executes the save step, whether or not the image host
\* is configured and whatever the upload step does.
C9_SaveStepAlwaysRuns ==
    \A i \in DOMAIN pipelineLog :
        pipelineLog[i].source_records > 0 =>
            (~pipelineLog[i].raised /\ "save" \in pipelineLog[i].steps)

C5_NoCallOnceLimitReached ==
    /\ \A i \in DOMAIN schedRun.attempts :
          /\ schedRun.attempts[i].total_before < schedRun.daily_limit
          /\ i < Len(schedRun.attempts) => schedRun.attempts[i].total_after < schedRun.daily_limit
    /\ (schedRun.exit # "none" /\ schedRun.already_collected >= schedRun.daily_limit)
          => schedRun.attempts = <<>>

\* C5 witness: a call with enabled keywords that starts at the limit and
\* processes none of them.
C5_Witness ==
    /\ schedRun.exit = "limit_at_start"
    /\ Len(schedRun.enabled) = 2
    /\ schedRun.already_collected >= schedRun.daily_limit
    /\ schedRun.attempts = <<>>

C7_LimitIsMinOfKeywordAndRemaining ==
    \A i \in DOMAIN schedRun.attempts :
        LET a == schedRun.attempts[i]
            remaining == schedRun.daily_limit - a.total_before
        IN  /\ a.limit <= remaining
            /\ a.limit <= a.kw_limit
            /\ a.limit = remaining \/ a.limit = a.kw_limit
            /\ (schedRun.daily_limit = 20 /\ a.total_before = 18 /\ a.kw_limit = 50)
                  => a.limit = 2

\* C7 witness: daily_limit 20, 18 collected, keyword limit 50, limit 2 passed.
C7_Witness ==
    /\ schedRun.daily_limit = 20
    /\ Len(schedRun.attempts) >= 1
    /\ schedRun.attempts[1].total_before = 18
    /\ schedRun.attempts[1].kw_limit = 50
    /\ schedRun.attempts[1].limit = 2

\* C8: a pipeline call that raises is caught: the call of the scheduler or of
\* collect_all_keywords.main does not end by the exception, and the next
\* keyword is still invoked while the daily limit is not reached.
C8_FailureDoesNotStopLaterKeywords ==
    /\ schedRun.exit # "raised"
    /\ \A i \in DOMAIN schedRun.attempts :
          (/\ schedRun.attempts[i].outcome = "raised"
           /\ i < Len(schedRun.enabled)
           /\ schedRun.attempts[i].total_after < schedRun.daily_limit)
          => /\ Len(schedRun.attempts) > i
             /\ schedRun.attempts[i + 1].query = schedRun.enabled[i + 1].query
    /\ mainRun.exit # "raised"
    /\ mainRun.ran =>
          /\ Len(mainRun.results) = Len(mainRun.keywords)
          /\ \A i \in DOMAIN mainRun.results :
                mainRun.results[i].keyword = mainRun.keywords[i]

\* C8 witness: the pipeline raised for the first of two enabled keywords and
\* was invoked for the second.
C8_Witness ==
    /\ schedRun.exit = "done"
    /\ Len(schedRun.enabled) = 2
    /\ Len(schedRun.attempts) = 2
    /\ schedRun.attempts[1].outcome = "raised"
    /\ schedRun.attempts[1].error = "TypeError"
    /\ schedRun.attempts[2].query = schedRun.enabled[2].query

(***************************************************************************)
(* Properties of extract_ad_data (SpecCollect).                            *)
(***************************************************************************)
YieldsData(container) == ~container.broken /\ (container.text \/ container.images # <<>>)

\* C10: every container below min(n, limit) that can be parsed and yields
\* data is returned by extract_ad_data with its own index and content, and the
\* returned records are in container order.
C10_ParseFailureDropsOnlyThatElement ==
    collectRun.extracted =>
        LET n == Len(collectRun.page)
            ads == collectRun.ads
        IN  /\ \A i \in 0..(Min(n, collectRun.limit) - 1) :
                  YieldsData(collectRun.page[i + 1]) =>
                      \E j \in DOMAIN ads :
                          /\ ads[j].index = i
                          /\ ads[j].image_urls = collectRun.page[i + 1].images
                          /\ ads[j].has_page_name = collectRun.page[i + 1].text
            /\ \A j, k \in DOMAIN ads : j < k => ads[j].index < ads[k].index

\* C10 witness: the second of three containers cannot be parsed; the first
\* and the third are returned.
C10_Witness ==
    /\ collectRun.extracted
    /\ Len(collectRun.page) = 3
    /\ collectRun.page[2].broken
    /\ collectRun.limit >= 3
    /\ Len(collectRun.ads) = 2
    /\ collectRun.ads[1].index = 0
    /\ collectRun.ads[2].index = 2

(***************************************************************************)
(* Properties of scroll_and_load_ads (SpecScroll).                         *)
(***************************************************************************)
\* C11: when the target is not reached, the loop ends on the pass that finds
\* the same count for the third time in a row and makes no further pass; for
\* the counts 3, 5, 5, 5 it ends at the fourth pass and returns 5.
C11_StopsAtThirdUnchangedCount ==
    scrollRun.ran =>
        /\ \A k \in 3..Len(scrollRun.observed) :
              (/\ scrollRun.observed[k - 2] = scrollRun.observed[k - 1]
               /\ scrollRun.observed[k - 1] = scrollRun.observed[k])
              => Len(scrollRun.observed) = k
        /\ (Len(scrollRun.observed) >= 4 /\ SubSeq(scrollRun.observed, 1, 4) = <<3, 5, 5, 5>>)
              => (Len(scrollRun.observed) = 4 /\ scrollRun.returned = 5)

(***************************************************************************)
(* Further properties of the collector (SpecCollect).                      *)
(***************************************************************************)
\* C12: for a limit of 0 or more collect_ads_playwright returns at most limit
\* records, whatever the page holds; the records are in the order of their
\* containers and carry distinct indexes of containers of the page.
C12_AtMostLimitInPageOrder ==
    collectRun.limit >= 0 =>
        /\ Len(collectRun.ads) <= collectRun.limit
        /\ \A j \in DOMAIN collectRun.ads :
              /\ collectRun.ads[j].index \in 0..(Len(collectRun.page) - 1)
              /\ \A k \in DOMAIN collectRun.ads :
                    j < k => collectRun.ads[j].index < collectRun.ads[k].index

\* C12 witness: three containers that yield data, limit 2, two records.
C12_Witness ==
    /\ collectRun.extracted
    /\ collectRun.limit = 2
    /\ Len(collectRun.page) = 3
    /\ \A i \in 1..3 : YieldsData(collectRun.page[i])
    /\ Len(collectRun.ads) = 2
    /\ collectRun.ads[2].index = 1

\* C13: when the search page cannot be navigated to, run_full_pipeline ends
\* without raising after the collection step alone: no raw file is written,
\* no sink step runs, nothing is collected (it returns False).
C13_NavigationFailureReturnsFalse ==
    \A i \in DOMAIN pipelineLog :
        ~pipelineLog[i].navigation_ok =>
            /\ ~pipelineLog[i].raised
            /\ pipelineLog[i].steps = {"collect"}
            /\ pipelineLog[i].collected = 0

\* C14: after a run with dedup on is killed, the durable hash log of its sink
\* still holds every digest committed before the run and every digest the run
\* admitted for the records it had gone through.
C14_CrashKeepsAdmissions ==
    (lastRun.crashed /\ lastRun.skip_duplicates) =>
        LET log == hashLog[lastRun.sink]
            durable == IF log.exists /\ log.readable THEN log.hashes ELSE {}
        IN  /\ lastRun.before \subseteq durable
            /\ AdmittedIn(lastRun.events) \subseteq durable

\* C15: a completed upload run for a sink never removes a digest from that
\* sink's hash log file: the digests in the file after the run include those
\* in it before, with dedup on or off, the file readable or not.
C15_LogNeverLosesDigests ==
    [][\A s \in Sinks :
          lastRun'.sink = s => hashLog[s].hashes \subseteq hashLog'[s].hashes]_vars

\* The locator field a sink writes into a record.
Locator(ad, sink) == IF sink = "imgbb" THEN ad.permanent_image_url ELSE ad.r2_image_url

\* C16: a run for one sink decides from that sink's own log and locator field
\* alone (a record is skipped as delivered exactly when it carries this sink's
\* locator, and as a duplicate exactly when its digest is in this sink's log
\* or was admitted earlier in this run), and it leaves the other sink's log,
\* locator fields and objects as they were.
C16_DedupScopedPerSink ==
    [][\A s \in Sinks :
          lastRun'.sink = s =>
              LET o == CHOOSE x \in Sinks : x # s
                  seen0 == load_seen_hashes(hashLog[s], lastRun'.skip_duplicates)
                  events == lastRun'.events
              IN  /\ hashLog'[o] = hashLog[o]
                  /\ s = "imgbb" => r2Objects' = r2Objects
                  /\ \A i \in DOMAIN rawFile.ads :
                        Locator(rawFile'.ads[i], o) = Locator(rawFile.ads[i], o)
                  /\ \A i \in DOMAIN events :
                        LET e == events[i]
                            ad == rawFile.ads[i]
                            before == {events[j].digest :
                                          j \in {k \in 1..(i - 1) : events[k].kind = "admitted"}}
                        IN  /\ e.kind = "has_locator"
                                  <=> (image_urls_of(ad) # <<>> /\ Locator(ad, s) # NoUrl)
                            /\ e.kind = "duplicate"
                                  <=> /\ e.digest # NoDigest
                                      /\ lastRun'.skip_duplicates
                                      /\ e.digest \in seen0 \cup before]_vars

\* C16 witness: an image whose digest is in the R2 log, and whose record
\* carries the R2 locator, has just been uploaded to imgbb.
C16_Witness ==
    /\ lastRun.sink = "imgbb" /\ lastRun.skip_duplicates
    /\ \E i \in DOMAIN lastRun.events :
          /\ lastRun.events[i].kind = "admitted"
          /\ lastRun.events[i].upload = "ok"
          /\ lastRun.events[i].digest \in hashLog["r2"].hashes
          /\ lastRun.ads[i].r2_image_url # NoUrl
          /\ lastRun.ads[i].permanent_image_url = NoUrl
          /\ rawFile.ads[i].permanent_image_url # NoUrl
          /\ rawFile.ads[i].r2_image_url = lastRun.ads[i].r2_image_url

\* C17: every fingerprint a run decides with, and every fingerprint stored in
\* the hash column of a keyword tab, is the digest of downloaded image bytes,
\* never a digest of the image URL.
C17_FingerprintFromBytes ==
    /\ \A i \in DOMAIN lastRun.events :
          lastRun.events[i].digest # NoDigest => lastRun.events[i].digest \in Digests
    /\ \A q \in Queries : \A row \in sheet[q] : row.image_hash \in Digests

\* The (keyword, image_url) pairs of the rows of a table.
Pairs(table) == {<<r.keyword, r.image_url>> : r \in table}

C20_CountsAccountForEveryRecord ==
    lastRun.sink \in Sinks =>
        lastRun.uploaded + lastRun.skipped + lastRun.failed = lastRun.total

(***************************************************************************)
(* Properties of the scheduler processes and of the registry.              *)
(***************************************************************************)
\* C21: the scheduler process and a run-now process are never both inside
\* run_full_pipeline for the same keyword.
C21_NoTwoRunsForSameKeyword ==
    \A p, q \in Triggers :
        (p # q /\ proc[p].pc = "pipeline" /\ proc[q].pc = "pipeline")
            => proc[p].query # proc[q].query

\* C22: when the search page has loaded and an error then interrupts
\* collect_ads_playwright (in the scroll loop or after it), the call returns
\* the records of the containers loaded so far, up to the limit, not an
\* empty list.
C22_InterruptionKeepsCollected ==
    (collectRun.navigation_ok /\ ~collectRun.extracted) =>
        collectRun.ads = extract_ad_data(collectRun.page, collectRun.limit)

EnabledQueries ==
    LET on == SelectSeq(registry.keywords, LAMBDA kw : ~kw.has_enabled \/ kw.enabled)
    IN  [i \in DOMAIN on |-> on[i].query]

\* C24: the pipeline calls of one run_scheduled_collection call are for the
\* enabled keywords of the registry, in registry order, one call per keyword
\* at most: the queries called are a prefix of the enabled queries.
C24_OnlyEnabledInRegistryOrder ==
    /\ Len(schedRun.attempts) <= Len(EnabledQueries)
    /\ \A j \in DOMAIN schedRun.attempts :
          schedRun.attempts[j].query = EnabledQueries[j]

\* C24 witness: a disabled keyword followed by one without the flag; the one
\* call made is for the second.
C24_Witness ==
    /\ Len(registry.keywords) = 2
    /\ registry.keywords[1].has_enabled /\ ~registry.keywords[1].enabled
    /\ ~registry.keywords[2].has_enabled
    /\ Len(schedRun.attempts) = 1
    /\ schedRun.attempts[1].query = registry.keywords[2].query

\* C25: a call of run_scheduled_collection leaves data/keywords.json as it
\* was (keywords, flags, limits and daily_limit), and the keywords it takes
\* up are the enabled keywords of that file, in its order: a keyword left out
\* by one call because the daily limit was reached is in the same position
\* for the next call.
C25_RunLeavesRegistryAsItWas ==
    [][schedRun'.exit # "none" =>
          /\ registry' = registry
          /\ Len(schedRun'.enabled) = Len(EnabledQueries)
          /\ \A i \in DOMAIN schedRun'.enabled :
                schedRun'.enabled[i].query = EnabledQueries[i]]_vars

\* C25 witness: a call ended at the daily limit before the second of two
\* enabled keywords, which is still registered, enabled and second.
C25_Witness ==
    /\ schedRun.exit \in {"break", "limit_at_start"}
    /\ Len(schedRun.attempts) < Len(schedRun.enabled)
    /\ Len(registry.keywords) = 2
    /\ Len(EnabledQueries) = 2
    /\ schedRun.enabled[2] = registry.keywords[2]

\* C26: no two registered keywords have the same query, after any sequence
\* of add and remove commands on a registry that started that way; add for a
\* registered query returns False and leaves the registry as it was, add for a
\* new query returns True and appends it as enabled; remove leaves exactly the
\* entries with another query, in their order.
C26_QueriesStayDistinct ==
    [][/\ \A i, j \in DOMAIN registry'.keywords :
             registry'.keywords[i].query = registry'.keywords[j].query => i = j
       /\ (lastEdit'.op = "add" /\ lastEdit' # lastEdit) =>
             LET query == lastEdit'.query
                 n == Len(registry.keywords)
             IN  IF \E i \in DOMAIN registry.keywords : registry.keywords[i].query = query
                 THEN ~lastEdit'.returned /\ registry' = registry
                 ELSE /\ lastEdit'.returned
                      /\ registry'.daily_limit = registry.daily_limit
                      /\ Len(registry'.keywords) = n + 1
                      /\ SubSeq(registry'.keywords, 1, n) = registry.keywords
                      /\ registry'.keywords[n + 1].query = query
                      /\ registry'.keywords[n + 1].has_enabled
                      /\ registry'.keywords[n + 1].enabled
       /\ (lastEdit'.op = "remove" /\ lastEdit' # lastEdit) =>
             /\ registry'.daily_limit = registry.daily_limit
             /\ registry'.keywords =
                   SelectSeq(registry.keywords, LAMBDA kw : kw.query # lastEdit'.query)]_vars

\* C26 witness: the registry holds two keywords, the second one added by the
\* last command after the first had been refused once.
C26_Witness ==
    /\ lastEdit.op = "add" /\ lastEdit.returned
    /\ Len(registry.keywords) = 2
    /\ registry.keywords[2].query = lastEdit.query
    /\ registry.keywords[1].query # lastEdit.query

(***************************************************************************)
(* Further properties of the upload runs.                                  *)
(***************************************************************************)
\* C27: every r2_image_url in a record of the raw file names a key that is
\* stored in the bucket.
C27_R2UrlNamesStoredObject ==
    \A i \in DOMAIN rawFile.ads :
        rawFile.ads[i].r2_image_url # NoUrl => rawFile.ads[i].r2_image_url[2] \in r2Objects

C29_ReprocessingKeepsRecords ==
    [][(lastRun'.sink \in Sinks /\ ~lastRun'.crashed) =>
          LET sink == lastRun'.sink
              events == lastRun'.events
              had_locator == {i \in DOMAIN rawFile.ads :
                                 IF sink = "imgbb"
                                 THEN rawFile.ads[i].permanent_image_url # NoUrl
                                 ELSE rawFile.ads[i].r2_image_url # NoUrl}
          IN  /\ rawFile'.exists = rawFile.exists
              /\ rawFile'.query = rawFile.query
              /\ Len(rawFile'.ads) = Len(rawFile.ads)
              /\ Len(events) = Len(rawFile.ads)
              /\ \A i \in DOMAIN rawFile.ads :
                    /\ rawFile'.ads[i].has_image_urls = rawFile.ads[i].has_image_urls
                    /\ rawFile'.ads[i].image_urls = rawFile.ads[i].image_urls
                    /\ sink = "imgbb" => rawFile'.ads[i].r2_image_url = rawFile.ads[i].r2_image_url
                    /\ sink = "r2" => rawFile'.ads[i].permanent_image_url = rawFile.ads[i].permanent_image_url
              /\ \A i \in had_locator :
                    /\ rawFile'.ads[i] = rawFile.ads[i]
                    /\ events[i].kind = "has_locator"
                    /\ events[i].calls = {}
              /\ lastRun'.skipped >= Cardinality(had_locator)
      ]_vars

\* C29 witness: an R2 run over a record that carries both locators has
\* skipped it and left it as it was.
C29_Witness ==
    /\ lastRun.sink = "r2" /\ ~lastRun.crashed
    /\ Len(rawFile.ads) >= 1
    /\ rawFile.ads[1].r2_image_url # NoUrl
    /\ rawFile.ads[1].permanent_image_url # NoUrl
    /\ lastRun.ads = rawFile.ads
    /\ lastRun.events[1].kind = "has_locator"
    /\ lastRun.skipped = 1 /\ lastRun.uploaded = 0

=============================================================================
